---- MODULE Spec2Model ----
(***************************************************************************)
(* A model of the file-backed cache of PE-Valuation-Calculator             *)
(* (src/cache_manager.py, class CacheManager).                             *)
(*                                                                         *)
(* Strings are sequences of one-character strings, so that the             *)
(* concatenation and the sorting done by _get_cache_key are computed and   *)
(* not assumed.  Time is counted in whole hours.  An instant is the number *)
(* of hours since Monday 00:00 UTC of week 0; a naive datetime is the      *)
(* number of hours shown by a wall clock since Monday 00:00 of week 0; an  *)
(* aware datetime is a record [wall, utcoffset].  Daylight saving is not   *)
(* modelled: US/Eastern stays at UTC-5 and the host zone at one offset.    *)
(***************************************************************************)
EXTENDS Integers, Sequences, FiniteSets, TLC

VARIABLES
    now,         \* the current instant (wall-clock source of the host)
    hostOffset,  \* UTC offset of the host's local zone, used by datetime.now()
    pkl,         \* cache directory: content of <key>.pkl per key
    meta,        \* cache directory: content of <key>_meta.json per key
    last,        \* the most recent call on the CacheManager and what it returned
    running,     \* the calls that overlap in time: where each has got to
    session      \* st.session_state: the API call counter and the two flags

vars == <<now, hostOffset, pkl, meta, last, running, session>>

----------------------------------------------------------------------------
(* Bounds *)

\* the number of hours, from Friday 00:00 exchange-local time on, in which
\* the hourly scenario writes its entry
WriteWindow == 96

\* the number of hours the hourly scenario runs on after the write window
MaxAge == 172

----------------------------------------------------------------------------
(* Strings *)

stock_data == <<"s","t","o","c","k","_","d","a","t","a">>
stock_info == <<"s","t","o","c","k","_","i","n","f","o">>
eps_ttm == <<"e","p","s","_","t","t","m">>
forward_eps == <<"f","o","r","w","a","r","d","_","e","p","s">>
calculated_results ==
    <<"c","a","l","c","u","l","a","t","e","d","_","r","e","s","u","l","t","s">>

\* code point of the characters that occur in parameter names
Ord(c) ==
    CASE c = "1" -> 49
      [] c = "2" -> 50
      [] c = "A" -> 65
      [] c = "B" -> 66
      [] c = "_" -> 95
      [] c = "a" -> 97
      [] c = "b" -> 98
      [] c = "c" -> 99
      [] OTHER -> 120

\* Python's < on str: lexicographic by code point, a proper prefix is smaller
RECURSIVE StrLess(_, _)
StrLess(s, t) ==
    IF t = <<>> THEN FALSE
    ELSE IF s = <<>> THEN TRUE
    ELSE IF Ord(Head(s)) # Ord(Head(t)) THEN Ord(Head(s)) < Ord(Head(t))
    ELSE StrLess(Tail(s), Tail(t))

\* str(n) of a natural number
RECURSIVE IntStr(_)
IntStr(n) ==
    LET digit == CASE n % 10 = 0 -> "0" [] n % 10 = 1 -> "1" [] n % 10 = 2 -> "2"
                   [] n % 10 = 3 -> "3" [] n % 10 = 4 -> "4" [] n % 10 = 5 -> "5"
                   [] n % 10 = 6 -> "6" [] n % 10 = 7 -> "7" [] n % 10 = 8 -> "8"
                   [] OTHER -> "9"
    IN  IF n < 10 THEN <<digit>> ELSE IntStr(n \div 10) \o <<digit>>

\* f"{v}" of a parameter value: an int [int |-> n] or a str [str |-> s]
Format(v) == IF "int" \in DOMAIN v THEN IntStr(v.int) ELSE v.str

\* "_".join(parts)
RECURSIVE Join(_)
Join(parts) ==
    IF parts = <<>> THEN <<>>
    ELSE IF Len(parts) = 1 THEN parts[1]
    ELSE parts[1] \o <<"_">> \o Join(Tail(parts))

----------------------------------------------------------------------------
(* Key derivation.  kwargs is the sequence of <<name, value>> items of the *)
(* dict in insertion order; the names are distinct.                        *)

\* insertion of one item into a list sorted by name
RECURSIVE InsertItem(_, _)
InsertItem(item, sorted) ==
    IF sorted = <<>> THEN <<item>>
    ELSE IF StrLess(item[1], Head(sorted)[1]) THEN <<item>> \o sorted
    ELSE <<Head(sorted)>> \o InsertItem(item, Tail(sorted))

RECURSIVE SortedItemsByName(_)
SortedItemsByName(kwargs) ==
    IF kwargs = <<>> THEN <<>>
    ELSE InsertItem(Head(kwargs), SortedItemsByName(Tail(kwargs)))

\* a sort that was forgotten: the items stay in insertion order
SortedItemsUnsorted(kwargs) == kwargs

\* sorted(kwargs.items())
SortedItems(kwargs) == SortedItemsByName(kwargs)

\* the string that is hashed
KeyData(ticker, data_type, kwargs) ==
    LET head == ticker \o <<"_">> \o data_type
        items == SortedItems(kwargs)
        parts == [i \in 1..Len(items) |->
                     items[i][1] \o <<"_">> \o Format(items[i][2])]
    IN  IF kwargs # <<>> THEN head \o <<"_">> \o Join(parts) ELSE head

\* hashlib.md5(s).hexdigest(): a function of the string alone; the digest
\* is taken to be collision free on the strings of the model
Md5Hex(s) == [md5 |-> s]

_get_cache_key(ticker, data_type, kwargs) ==
    Md5Hex(KeyData(ticker, data_type, kwargs))

----------------------------------------------------------------------------
(* Wall-clock time *)

\* pytz.timezone('US/Eastern'): the UTC offset of the exchange's zone
EtOffset == 0 - 5

\* the host zones the program may run in (US/Eastern, UTC, UTC+8)
HostUtcOffsets == {0 - 5, 0, 8}

\* datetime.now(): the host's local wall clock, naive
DatetimeNow == now + hostOffset

\* datetime.now(tz): the current instant as an aware datetime of zone tz
DatetimeNowTz(utcoffset) == [wall |-> now + utcoffset, utcoffset |-> utcoffset]

\* naive.replace(tzinfo=pytz.UTC): the wall clock is kept, the zone is set
ReplaceTzUtc(naive) == [wall |-> naive, utcoffset |-> 0]

\* aware.astimezone(tz): the same instant on the wall clock of zone tz
Astimezone(aware, utcoffset) ==
    [wall |-> aware.wall - aware.utcoffset + utcoffset, utcoffset |-> utcoffset]

\* tz.localize(naive): the wall clock is kept and read in zone tz
Localize(naive, utcoffset) == [wall |-> naive, utcoffset |-> utcoffset]

\* a < b on aware datetimes compares the instants
\* a comparison of two aware datetimes for being different
AwareDiffers(a, b) == a.wall - a.utcoffset # b.wall - b.utcoffset

AwareLess(a, b) == a.wall - a.utcoffset < b.wall - b.utcoffset

\* datetime.date(), datetime.time().hour and date.weekday() (0 = Monday)
DateOf(wall) == wall \div 24
HourOf(wall) == wall % 24
Weekday(date) == date % 7

\* datetime.combine(date, time(hour))
Combine(date, hour) == date * 24 + hour

\* datetime.isoformat() and datetime.fromisoformat() of a naive datetime
Isoformat(naive) == [iso |-> naive]
Fromisoformat(s) == s.iso

\* datetime.strftime('%Y-%m-%d %H:%M:%S')
Strftime(naive) == [ymd_hms |-> naive]

----------------------------------------------------------------------------
(* Expiry policy *)

\* timedelta(weeks=1), in hours
OneWeek == 168

\* hour of the trading close, datetime.min.time().replace(hour=16)
CloseHour == 16

\* self.cache_expiry
cache_expiry ==
    (stock_data :> [rule |-> "trading_day"])
    @@ (stock_info :> [rule |-> "trading_day"])
    @@ (eps_ttm :> [rule |-> "timedelta", hours |-> OneWeek])
    @@ (forward_eps :> [rule |-> "timedelta", hours |-> OneWeek])
    @@ (calculated_results :> [rule |-> "trading_day"])

\* while d.weekday() >= 5: d -= timedelta(days=1)
RECURSIVE SkipWeekendBack(_)
SkipWeekendBack(date) ==
    IF Weekday(date) >= 5 THEN SkipWeekendBack(date - 1) ELSE date

\* a boundary that takes the close of the current weekday even before 16:00
LastTradingCloseOfToday(current_time_et) ==
    Localize(Combine(SkipWeekendBack(DateOf(current_time_et.wall)), CloseHour),
             EtOffset)

_get_last_trading_close(current_time_et) ==
    LET current_date == SkipWeekendBack(DateOf(current_time_et.wall))
        close_time_et == Localize(Combine(current_date, CloseHour), EtOffset)
    IN  IF /\ DateOf(current_time_et.wall) = current_date
           /\ HourOf(current_time_et.wall) < CloseHour
        THEN LET prev_date == SkipWeekendBack(current_date - 1)
             IN  Localize(Combine(prev_date, CloseHour), EtOffset)
        ELSE close_time_et

\* an expiry test that compares the calendar dates only
TradingDayExpiredByDate(created_at) ==
    LET now_et == DatetimeNowTz(EtOffset)
        created_at_et == Astimezone(ReplaceTzUtc(created_at), EtOffset)
    IN  DateOf(created_at_et.wall) < DateOf(now_et.wall)

_is_trading_day_expired(created_at) ==
    LET now_et == DatetimeNowTz(EtOffset)
        created_at_et == Astimezone(ReplaceTzUtc(created_at), EtOffset)
        last_trading_close == _get_last_trading_close(now_et)
    IN  AwareLess(created_at_et, last_trading_close)

\* a duration test with >= in place of >
TimedeltaExpiredInclusive(created_at, expiry_rule) ==
    DatetimeNow - created_at >= expiry_rule

\* datetime.now() - created_at > expiry_rule
TimedeltaExpired(created_at, expiry_rule) ==
    DatetimeNow - created_at > expiry_rule

\* an expiry test that serves the types it does not know
IsCacheExpiredUnknownFresh(data_type, created_at) ==
    IF data_type \notin DOMAIN cache_expiry THEN FALSE
    ELSE IF cache_expiry[data_type].rule = "trading_day"
         THEN _is_trading_day_expired(created_at)
         ELSE TimedeltaExpired(created_at, cache_expiry[data_type].hours)

_is_cache_expired(data_type, created_at) ==
    IF data_type \notin DOMAIN cache_expiry THEN TRUE
    ELSE LET expiry_rule == cache_expiry[data_type]
         IN  IF expiry_rule.rule = "trading_day"
             THEN _is_trading_day_expired(created_at)
             ELSE IF expiry_rule.rule = "timedelta"
                  THEN TimedeltaExpired(created_at, expiry_rule.hours)
                  ELSE TRUE

----------------------------------------------------------------------------
(* The cache directory *)

\* a path at which no file exists
NoFile == [file |-> "missing"]

\* a file that was cut short or damaged: neither JSON nor a pickle
Garbage == [file |-> "garbage"]

\* pickle.dump(data, f) and pickle.load(f)
PickleDump(data) == [file |-> "pickle", data |-> data]
PickleLoad(content) == content.data

\* json.dump(metadata, f) and json.load(f); a dict is a record whose
\* fields are the keys it has
JsonDump(metadata) == [file |-> "json", dict |-> metadata]
JsonLoad(content) == content.dict

\* the dict {}
EmptyDict == <<>>

\* an update of last_accessed that renews created_at with it
DictSetRenewing(d, k, v) ==
    IF k = "last_accessed" THEN (k :> v) @@ ("created_at" :> v) @@ d
    ELSE (k :> v) @@ d

\* d[k] = v
DictSet(d, k, v) == (k :> v) @@ d

\* the dict d without the key k
DictRemove(d, k) == [f \in (DOMAIN d) \ {k} |-> d[f]]

\* the values returned to the caller
None == [kind |-> "None"]
Tuple(data, metadata) == [kind |-> "tuple", data |-> data, metadata |-> metadata]
KeyError == [kind |-> "raise", error |-> "KeyError"]
OSError == [kind |-> "raise", error |-> "OSError"]

\* the identities (ticker, data_type, kwargs) the callers use
TickerA == <<"A">>
TickerAStock == <<"A","_","s","t","o","c","k">>
DataTypeData == <<"d","a","t","a">>

Identities ==
    { [ticker |-> TickerA, data_type |-> eps_ttm, kwargs |-> <<>>],
      [ticker |-> TickerA, data_type |-> stock_data, kwargs |-> <<>>],
      [ticker |-> TickerAStock, data_type |-> DataTypeData, kwargs |-> <<>>] }

KeyOf(id) == _get_cache_key(id.ticker, id.data_type, id.kwargs)

Keys == { KeyOf(id) : id \in Identities }

\* the payloads that are cached
Blobs == {1, 2}

----------------------------------------------------------------------------
(* Operations of CacheManager *)

\* a write that keeps the blob file when one exists already
save_cache_keep_blob(ticker, data_type, data, kwargs) ==
    LET cache_key == _get_cache_key(ticker, data_type, kwargs)
        metadata == [ticker |-> ticker,
                     data_type |-> data_type,
                     created_at |-> Isoformat(DatetimeNow),
                     last_accessed |-> Isoformat(DatetimeNow),
                     kwargs |-> kwargs]
    IN  /\ pkl' = [pkl EXCEPT ![cache_key] =
                      IF @.file = "missing" THEN PickleDump(data) ELSE @]
        /\ meta' = [meta EXCEPT ![cache_key] = JsonDump(metadata)]
        /\ last' = [op |-> "save_cache", ticker |-> ticker,
                    data_type |-> data_type, kwargs |-> kwargs,
                    data |-> data, ret |-> cache_key]
        /\ UNCHANGED <<session, running, now, hostOffset>>

save_cache(ticker, data_type, data, kwargs) ==
    LET cache_key == _get_cache_key(ticker, data_type, kwargs)
        metadata == [ticker |-> ticker,
                     data_type |-> data_type,
                     created_at |-> Isoformat(DatetimeNow),
                     last_accessed |-> Isoformat(DatetimeNow),
                     kwargs |-> kwargs]
    IN  /\ pkl' = [pkl EXCEPT ![cache_key] = PickleDump(data)]
        /\ meta' = [meta EXCEPT ![cache_key] = JsonDump(metadata)]
        /\ last' = [op |-> "save_cache", ticker |-> ticker,
                    data_type |-> data_type, kwargs |-> kwargs,
                    data |-> data, ret |-> cache_key]
        /\ UNCHANGED <<session, running, now, hostOffset>>

\* the points at which a write of save_cache can fail (disk full, permission
\* denied): opening the blob file, dumping the blob, opening the metadata
\* file, dumping the metadata
WriteStages == {"open_blob", "dump_blob", "open_meta", "dump_meta"}

\* save_cache when the file system fails at the given stage: the exception
\* reaches the caller, the files written before stay, and a file that was
\* opened for writing is cut short
save_cache_write_failure(ticker, data_type, data, kwargs, stage) ==
    LET cache_key == _get_cache_key(ticker, data_type, kwargs)
    IN  /\ pkl' = [pkl EXCEPT ![cache_key] =
                      IF stage = "open_blob" THEN @
                      ELSE IF stage = "dump_blob" THEN Garbage
                      ELSE PickleDump(data)]
        /\ meta' = [meta EXCEPT ![cache_key] =
                      IF stage = "dump_meta" THEN Garbage ELSE @]
        /\ last' = [op |-> "save_cache", ticker |-> ticker,
                    data_type |-> data_type, kwargs |-> kwargs,
                    data |-> data, ret |-> OSError]
        /\ UNCHANGED <<session, running, now, hostOffset>>

\* an expiry decision that trusts the flag persisted by an earlier read
ReadExpiredTrustFlag(metadata, data_type) ==
    IF "is_expired" \in DOMAIN metadata THEN metadata.is_expired
    ELSE _is_cache_expired(data_type, Fromisoformat(metadata.created_at))

\* the expiry decision of a read
ReadExpired(metadata, data_type) ==
    _is_cache_expired(data_type, Fromisoformat(metadata.created_at))

\* a read that serves an expired entry whatever allow_expired says
LoadResultAlwaysStale(pklFile, metaFile, data_type, allow_expired) ==
    LET metadata == JsonLoad(metaFile)
        updated == DictSet(DictSet(metadata, "last_accessed", Isoformat(DatetimeNow)),
                           "is_expired", ReadExpired(metadata, data_type))
    IN  IF pklFile.file = "missing" \/ metaFile.file = "missing"
        THEN [ret |-> None, metaFile |-> metaFile]
        ELSE [ret |-> Tuple(PickleLoad(pklFile), updated), metaFile |-> JsonDump(updated)]

\* what load_cache returns and what it leaves in the metadata file, given
\* the two files of the key
LoadResult(pklFile, metaFile, data_type, allow_expired) ==
    IF pklFile.file = "missing" \/ metaFile.file = "missing"
    THEN [ret |-> None, metaFile |-> metaFile]
    ELSE IF metaFile.file # "json"
    THEN [ret |-> None, metaFile |-> metaFile]
    ELSE LET metadata == JsonLoad(metaFile)
         IN  IF "created_at" \notin DOMAIN metadata
             THEN [ret |-> KeyError, metaFile |-> metaFile]
             ELSE LET is_expired == ReadExpired(metadata, data_type)
                      updated == DictSet(DictSet(metadata, "last_accessed",
                                                 Isoformat(DatetimeNow)),
                                         "is_expired", is_expired)
                  IN  IF is_expired /\ ~ allow_expired
                      THEN [ret |-> None, metaFile |-> metaFile]
                      ELSE IF pklFile.file = "pickle"
                      THEN [ret |-> Tuple(PickleLoad(pklFile), updated),
                            metaFile |-> JsonDump(updated)]
                      ELSE [ret |-> None, metaFile |-> JsonDump(updated)]

\* a read that does not write the metadata back
load_cache_no_writeback(ticker, data_type, allow_expired, kwargs) ==
    LET cache_key == _get_cache_key(ticker, data_type, kwargs)
        res == LoadResult(pkl[cache_key], meta[cache_key], data_type, allow_expired)
    IN  /\ meta' = meta
        /\ last' = [op |-> "load_cache", ticker |-> ticker,
                    data_type |-> data_type, kwargs |-> kwargs,
                    allow_expired |-> allow_expired, ret |-> res.ret]
        /\ UNCHANGED <<session, running, now, hostOffset, pkl>>

load_cache(ticker, data_type, allow_expired, kwargs) ==
    LET cache_key == _get_cache_key(ticker, data_type, kwargs)
        res == LoadResult(pkl[cache_key], meta[cache_key], data_type, allow_expired)
    IN  /\ meta' = [meta EXCEPT ![cache_key] = res.metaFile]
        /\ last' = [op |-> "load_cache", ticker |-> ticker,
                    data_type |-> data_type, kwargs |-> kwargs,
                    allow_expired |-> allow_expired, ret |-> res.ret]
        /\ UNCHANGED <<session, running, now, hostOffset, pkl>>

\* a forced refresh that removes the blob file and forgets the metadata file
force_refresh_cache_blob_only(ticker, data_type, kwargs) ==
    LET cache_key == _get_cache_key(ticker, data_type, kwargs)
        deleted == pkl[cache_key].file # "missing" \/ meta[cache_key].file # "missing"
    IN  /\ pkl' = [pkl EXCEPT ![cache_key] = NoFile]
        /\ meta' = meta
        /\ last' = [op |-> "force_refresh_cache", ticker |-> ticker,
                    data_type |-> data_type, kwargs |-> kwargs, ret |-> deleted]
        /\ UNCHANGED <<session, running, now, hostOffset>>

force_refresh_cache(ticker, data_type, kwargs) ==
    LET cache_key == _get_cache_key(ticker, data_type, kwargs)
        deleted == pkl[cache_key].file # "missing" \/ meta[cache_key].file # "missing"
    IN  /\ pkl' = [pkl EXCEPT ![cache_key] = NoFile]
        /\ meta' = [meta EXCEPT ![cache_key] = NoFile]
        /\ last' = [op |-> "force_refresh_cache", ticker |-> ticker,
                    data_type |-> data_type, kwargs |-> kwargs, ret |-> deleted]
        /\ UNCHANGED <<session, running, now, hostOffset>>

\* what get_data_update_time returns, given the metadata file of the key
UpdateTimeResult(metaFile, data_type) ==
    IF metaFile.file = "missing" THEN None
    ELSE IF metaFile.file # "json" THEN None
    ELSE LET metadata == JsonLoad(metaFile)
         IN  IF "created_at" \notin DOMAIN metadata THEN None
             ELSE LET created_at == Fromisoformat(metadata.created_at)
                      is_expired == _is_cache_expired(data_type, created_at)
                  IN  [kind |-> "dict",
                       update_time |-> Strftime(created_at),
                       is_expired |-> is_expired,
                       status |-> IF is_expired THEN "expired" ELSE "latest"]

get_data_update_time(ticker, data_type, kwargs) ==
    LET cache_key == _get_cache_key(ticker, data_type, kwargs)
    IN  /\ last' = [op |-> "get_data_update_time", ticker |-> ticker,
                    data_type |-> data_type, kwargs |-> kwargs,
                    ret |-> UpdateTimeResult(meta[cache_key], data_type)]
        /\ UNCHANGED <<session, running, now, hostOffset, pkl, meta>>

\* the keys whose metadata file os.listdir finds
ListedKeys == { k \in Keys : meta[k].file # "missing" }

\* json.load of the metadata file raises
MetaUnparseable(k) == meta[k].file # "json"

\* a sweep that removes the expired entries as well
SweepRemovedExpired(todo) ==
    { k \in todo \cap ListedKeys :
        \/ MetaUnparseable(k)
        \/ /\ "created_at" \in DOMAIN JsonLoad(meta[k])
           /\ _is_cache_expired(JsonLoad(meta[k]).data_type,
                                Fromisoformat(JsonLoad(meta[k]).created_at)) }

\* the keys cleanup_old_cache removes when it gets to process the keys of todo
SweepRemoved(todo) == { k \in todo \cap ListedKeys : MetaUnparseable(k) }

\* the two kinds of file after _remove_cache_files on the keys of removed
PklWithout(removed) == [k \in Keys |-> IF k \in removed THEN NoFile ELSE pkl[k]]

\* a removal that leaves the metadata files where they are
MetaWithoutKeep(removed) == meta

MetaWithout(removed) == [k \in Keys |-> IF k \in removed THEN NoFile ELSE meta[k]]

\* statistics that count the removed files, two for an entry, and only the
\* metadata files that parse
SweepStatsPerFile(todo) ==
    [kind |-> "dict",
     manually_removed |-> 2 * Cardinality(SweepRemoved(todo)),
     total_files |-> Cardinality((todo \cap ListedKeys) \ SweepRemoved(todo))]

\* cleanup_stats
SweepStats(todo) ==
    [kind |-> "dict",
     manually_removed |-> Cardinality(SweepRemoved(todo)),
     total_files |-> Cardinality(todo \cap ListedKeys)]

cleanup_old_cache ==
    /\ pkl' = PklWithout(SweepRemoved(Keys))
    /\ meta' = MetaWithout(SweepRemoved(Keys))
    /\ last' = [op |-> "cleanup_old_cache", ret |-> SweepStats(Keys)]
    /\ UNCHANGED <<session, running, now, hostOffset>>

\* cleanup_old_cache when the process is stopped after the loop has
\* processed the keys of done (os.listdir gives the files in any order)
cleanup_old_cache_interrupted(done) ==
    /\ pkl' = PklWithout(SweepRemoved(done))
    /\ meta' = MetaWithout(SweepRemoved(done))
    /\ last' = [op |-> "cleanup_old_cache", ret |-> [kind |-> "killed"]]
    /\ UNCHANGED <<session, running, now, hostOffset>>

cleanup_cache ==
    /\ pkl' = PklWithout(SweepRemoved(Keys))
    /\ meta' = MetaWithout(SweepRemoved(Keys))
    /\ last' = [op |-> "cleanup_cache", ret |-> SweepStats(Keys).manually_removed]
    /\ UNCHANGED <<session, running, now, hostOffset>>

\* a bulk clear that removes the blob files and leaves the metadata files
clear_all_cache_blobs_only ==
    LET removed_count == Cardinality({ k \in Keys : pkl[k].file # "missing" })
    IN  /\ pkl' = [k \in Keys |-> NoFile]
        /\ meta' = meta
        /\ last' = [op |-> "clear_all_cache", ret |-> removed_count]
        /\ UNCHANGED <<session, running, now, hostOffset>>

clear_all_cache ==
    LET removed_count == Cardinality({ k \in Keys : pkl[k].file # "missing" })
                         + Cardinality({ k \in Keys : meta[k].file # "missing" })
    IN  /\ pkl' = [k \in Keys |-> NoFile]
        /\ meta' = [k \in Keys |-> NoFile]
        /\ last' = [op |-> "clear_all_cache", ret |-> removed_count]
        /\ UNCHANGED <<session, running, now, hostOffset>>

\* the ways in which a file of the cache directory is damaged from outside:
\* the metadata file no longer holds JSON, holds the JSON object {}, which
\* has no created_at, or the blob file is gone
DamageKinds == {"garbage_meta", "no_created_at", "blob_lost"}

damage(k, kind) ==
    /\ meta[k].file # "missing"
    /\ kind = "blob_lost" => pkl[k].file # "missing"
    /\ meta' = [meta EXCEPT ![k] =
                  IF kind = "garbage_meta" THEN Garbage
                  ELSE IF kind = "no_created_at"
                  THEN JsonDump(EmptyDict)
                  ELSE @]
    /\ pkl' = [pkl EXCEPT ![k] = IF kind = "blob_lost" THEN NoFile ELSE @]
    /\ last' = [op |-> "damage"]
    /\ UNCHANGED <<session, running, now, hostOffset>>

\* cleanup_old_cache when os.remove raises on a file of the key k (the file
\* is locked or the directory is read-only) after the loop has processed
\* the keys of done: _remove_cache_files runs in the except clause of the
\* loop, so the error leaves cleanup_old_cache
RemoveStages == {"remove_blob", "remove_meta"}

cleanup_old_cache_remove_fails(done, k, stage) ==
    /\ k \in SweepRemoved(Keys) \ done
    /\ stage = "remove_blob" => pkl[k].file # "missing"
    /\ pkl' = [PklWithout(SweepRemoved(done)) EXCEPT ![k] =
                  IF stage = "remove_meta" THEN NoFile ELSE @]
    /\ meta' = MetaWithout(SweepRemoved(done))
    /\ last' = [op |-> "cleanup_old_cache", ret |-> OSError]
    /\ UNCHANGED <<session, running, now, hostOffset>>

\* str.upper()
AsciiLower == <<"a","b","c","d","e","f","g","h","i","j","k","l","m",
                "n","o","p","q","r","s","t","u","v","w","x","y","z">>
AsciiUpper == <<"A","B","C","D","E","F","G","H","I","J","K","L","M",
                "N","O","P","Q","R","S","T","U","V","W","X","Y","Z">>

UpperChar(c) ==
    IF \E i \in DOMAIN AsciiLower : AsciiLower[i] = c
    THEN AsciiUpper[CHOOSE i \in DOMAIN AsciiLower : AsciiLower[i] = c]
    ELSE c

\* a comparison of tickers that looks at the case
UpperUnchanged(str) == str

Upper(str) == [i \in 1..Len(str) |-> UpperChar(str[i])]

unknown == <<"u","n","k","n","o","w","n">>

\* metadata.get(key, default)
DictGet(d, key, default) == IF key \in DOMAIN d THEN d[key] ELSE default

\* os.path.getsize of a blob file: a pickle of the blob b takes b half
\* megabytes, a file cut short takes none
BytesPerMB == 1048576
Getsize(content) ==
    IF content.file = "pickle" THEN content.data * (BytesPerMB \div 2) ELSE 0

\* round(total_size_mb, 2), in hundredths of a megabyte
RoundedMB(bytes) == (bytes * 100 + BytesPerMB \div 2) \div BytesPerMB

\* the ticker argument left out (None), or empty: "if ticker" is false
NoTicker == <<>>

\* the keys get_cache_info counts: the metadata file parses, has a
\* created_at, and its ticker is the one asked for when one is asked for
InfoCounted(ticker) ==
    { k \in ListedKeys :
        /\ meta[k].file = "json"
        /\ "created_at" \in DOMAIN JsonLoad(meta[k])
        /\ \/ ticker = NoTicker
           \/ Upper(DictGet(JsonLoad(meta[k]), "ticker", unknown)) = Upper(ticker) }

RECURSIVE BlobBytes(_)
BlobBytes(keys) ==
    IF keys = {} THEN 0
    ELSE LET k == CHOOSE x \in keys : TRUE
         IN  (IF pkl[k].file # "missing" THEN Getsize(pkl[k]) ELSE 0)
             + BlobBytes(keys \ {k})

\* the counts per value of a metadata field, as get_cache_info builds them
CountBy(keys, field) ==
    LET value(k) == DictGet(JsonLoad(meta[k]), field, unknown)
    IN  [v \in { value(k) : k \in keys } |->
            Cardinality({ k \in keys : value(k) = v })]

\* what get_cache_info returns
CacheInfo(ticker) ==
    LET counted == InfoCounted(ticker)
        created == { Fromisoformat(JsonLoad(meta[k]).created_at) : k \in counted }
    IN  [kind |-> "dict",
         total_files |-> Cardinality(counted),
         total_size_mb |-> RoundedMB(BlobBytes(counted)),
         by_ticker |-> CountBy(counted, "ticker"),
         by_data_type |-> CountBy(counted, "data_type"),
         oldest_cache |-> IF counted = {} THEN None
                          ELSE Strftime(CHOOSE t \in created : \A u \in created : t <= u),
         newest_cache |-> IF counted = {} THEN None
                          ELSE Strftime(CHOOSE t \in created : \A u \in created : t >= u)]

\* a summary that records the access in the metadata it reads
get_cache_info_touching(ticker) ==
    /\ meta' = [k \in Keys |->
                  IF k \in InfoCounted(ticker)
                  THEN JsonDump(DictSet(JsonLoad(meta[k]), "last_accessed",
                                        Isoformat(DatetimeNow)))
                  ELSE meta[k]]
    /\ last' = [op |-> "get_cache_info", ticker |-> ticker, ret |-> CacheInfo(ticker)]
    /\ UNCHANGED <<session, running, now, hostOffset, pkl>>

get_cache_info(ticker) ==
    /\ last' = [op |-> "get_cache_info", ticker |-> ticker, ret |-> CacheInfo(ticker)]
    /\ UNCHANGED <<session, running, now, hostOffset, pkl, meta>>

\* The calls below are the same operations taken one file access at a
\* time, for calls that overlap: the class has no lock, so between two file
\* accesses of one call any file access of another call can happen.  All the
\* overlapping calls are made for one identity; running[c] holds how far the
\* call c has got and what it has in its local variables.
RaceTicker == TickerA
RaceDataType == eps_ttm
RaceKey == _get_cache_key(RaceTicker, RaceDataType, <<>>)

Idle == [pc |-> "idle"]
Done(ret) == [pc |-> "done", ret |-> ret]

\* save_cache, line 57: open(cache_path, 'wb') truncates the blob file
save_cache_open_blob(c, data) ==
    /\ running[c] = Idle
    /\ pkl' = [pkl EXCEPT ![RaceKey] = Garbage]
    /\ running' = [running EXCEPT ![c] = [pc |-> "dump_blob", data |-> data]]
    /\ UNCHANGED <<session, now, hostOffset, meta, last>>

\* save_cache, line 58: pickle.dump and the close of the file
save_cache_dump_blob(c) ==
    /\ running[c].pc = "dump_blob"
    /\ pkl' = [pkl EXCEPT ![RaceKey] = PickleDump(running[c].data)]
    /\ running' = [running EXCEPT ![c].pc = "open_meta"]
    /\ UNCHANGED <<session, now, hostOffset, meta, last>>

\* save_cache, lines 61-69: the metadata dict is built and
\* open(meta_path, 'w') truncates the metadata file
save_cache_open_meta(c) ==
    LET metadata == [ticker |-> RaceTicker,
                     data_type |-> RaceDataType,
                     created_at |-> Isoformat(DatetimeNow),
                     last_accessed |-> Isoformat(DatetimeNow),
                     kwargs |-> <<>>]
    IN  /\ running[c].pc = "open_meta"
        /\ meta' = [meta EXCEPT ![RaceKey] = Garbage]
        /\ running' = [running EXCEPT ![c] =
                          [pc |-> "dump_meta", data |-> running[c].data,
                           metadata |-> metadata]]
        /\ UNCHANGED <<session, now, hostOffset, pkl, last>>

\* save_cache, lines 70-72: json.dump, the close of the file and the return
save_cache_dump_meta(c) ==
    /\ running[c].pc = "dump_meta"
    /\ meta' = [meta EXCEPT ![RaceKey] = JsonDump(running[c].metadata)]
    /\ running' = [running EXCEPT ![c] =
                      [pc |-> "done", data |-> running[c].data,
                       metadata |-> running[c].metadata, ret |-> RaceKey]]
    /\ UNCHANGED <<session, now, hostOffset, pkl, last>>

\* load_cache, lines 80-81: the two os.path.exists
load_cache_exists(c, allow_expired) ==
    /\ running[c] = Idle
    /\ running' = [running EXCEPT ![c] =
                      IF pkl[RaceKey].file = "missing" \/ meta[RaceKey].file = "missing"
                      THEN Done(None)
                      ELSE [pc |-> "read_meta", allow_expired |-> allow_expired]]
    /\ UNCHANGED <<session, now, hostOffset, pkl, meta, last>>

\* load_cache, lines 84-100: the metadata file is read, the expiry is
\* decided and the two fields of the read are set in the dict
load_cache_read_meta(c) ==
    /\ running[c].pc = "read_meta"
    /\ running' = [running EXCEPT ![c] =
          IF meta[RaceKey].file # "json" THEN Done(None)
          ELSE LET metadata == JsonLoad(meta[RaceKey])
               IN  IF "created_at" \notin DOMAIN metadata THEN Done(KeyError)
                   ELSE LET is_expired == ReadExpired(metadata, RaceDataType)
                        IN  IF is_expired /\ ~ running[c].allow_expired
                            THEN Done(None)
                            ELSE [pc |-> "open_meta",
                                  metadata |->
                                    DictSet(DictSet(metadata, "last_accessed",
                                                    Isoformat(DatetimeNow)),
                                            "is_expired", is_expired)]]
    /\ UNCHANGED <<session, now, hostOffset, pkl, meta, last>>

\* load_cache, line 101: open(meta_path, 'w') truncates the metadata file,
\* and makes it when it is not there
load_cache_open_meta(c) ==
    /\ running[c].pc = "open_meta"
    /\ meta' = [meta EXCEPT ![RaceKey] = Garbage]
    /\ running' = [running EXCEPT ![c].pc = "dump_meta"]
    /\ UNCHANGED <<session, now, hostOffset, pkl, last>>

\* load_cache, line 102: json.dump and the close of the file
load_cache_dump_meta(c) ==
    /\ running[c].pc = "dump_meta"
    /\ meta' = [meta EXCEPT ![RaceKey] = JsonDump(running[c].metadata)]
    /\ running' = [running EXCEPT ![c].pc = "read_blob"]
    /\ UNCHANGED <<session, now, hostOffset, pkl, last>>

\* load_cache, lines 105-110: the blob file is read and the call returns
load_cache_read_blob(c) ==
    /\ running[c].pc = "read_blob"
    /\ running' = [running EXCEPT ![c] =
                      IF pkl[RaceKey].file = "pickle"
                      THEN Done(Tuple(PickleLoad(pkl[RaceKey]), running[c].metadata))
                      ELSE Done(None)]
    /\ UNCHANGED <<session, now, hostOffset, pkl, meta, last>>

\* force_refresh_cache, lines 171-174: the blob file is removed when it is
\* there
force_refresh_cache_remove_blob(c) ==
    /\ running[c] = Idle
    /\ pkl' = [pkl EXCEPT ![RaceKey] = NoFile]
    /\ running' = [running EXCEPT ![c] =
                      [pc |-> "remove_meta", deleted |-> pkl[RaceKey].file # "missing"]]
    /\ UNCHANGED <<session, now, hostOffset, meta, last>>

\* force_refresh_cache, lines 176-180: the metadata file is removed when it
\* is there, and the call returns
force_refresh_cache_remove_meta(c) ==
    /\ running[c].pc = "remove_meta"
    /\ meta' = [meta EXCEPT ![RaceKey] = NoFile]
    /\ running' = [running EXCEPT ![c] =
                      Done(running[c].deleted \/ meta[RaceKey].file # "missing")]
    /\ UNCHANGED <<session, now, hostOffset, pkl, last>>

----------------------------------------------------------------------------
(* The cache under a coarse clock *)

\* the instant at which the exchange's wall clock shows the given hour of
\* the given weekday (0 = Monday) of the given week
EtInstant(week, weekday, hour) == Combine(week * 7 + weekday, hour) - EtOffset

\* the instants at which the callers act: Friday 15:00 of week 1, Monday
\* 09:00 of week 2, Friday 17:00 of week 2 (exchange-local time)
Instants == { EtInstant(1, 4, 15), EtInstant(2, 0, 9), EtInstant(2, 4, 17) }

\* st.session_state after the module has initialised it
SessionStart ==
    [api_call_count |-> 0,
     api_call_date |-> DateOf(DatetimeNow),
     rate_limited |-> FALSE,
     using_cached_data |-> FALSE]

NoCall == [op |-> "none"]

\* no two calls overlap: each call returns before the next is made
NoOverlap == <<>>

Init ==
    /\ now = EtInstant(1, 4, 15)
    /\ hostOffset \in HostUtcOffsets
    /\ pkl = [k \in Keys |-> NoFile]
    /\ meta = [k \in Keys |-> NoFile]
    /\ last = NoCall
    /\ running = NoOverlap
    /\ session = SessionStart

\* time passes between two calls
Tick ==
    /\ \E t \in Instants : t > now /\ now' = t
    /\ UNCHANGED <<session, running, hostOffset, pkl, meta, last>>

\* a write that cleans up on its way: it removes the entries whose metadata
\* does not parse
SaveSweeping == \E id \in Identities : \E data \in Blobs :
    LET cache_key == KeyOf(id)
        metadata == [ticker |-> id.ticker,
                     data_type |-> id.data_type,
                     created_at |-> Isoformat(DatetimeNow),
                     last_accessed |-> Isoformat(DatetimeNow),
                     kwargs |-> id.kwargs]
    IN  /\ pkl' = [PklWithout(SweepRemoved(Keys)) EXCEPT ![cache_key] = PickleDump(data)]
        /\ meta' = [MetaWithout(SweepRemoved(Keys)) EXCEPT ![cache_key] = JsonDump(metadata)]
        /\ last' = [op |-> "save_cache", ticker |-> id.ticker,
                    data_type |-> id.data_type, kwargs |-> id.kwargs,
                    data |-> data, ret |-> cache_key]
        /\ UNCHANGED <<session, running, now, hostOffset>>

Save == \E id \in Identities : \E data \in Blobs :
    save_cache(id.ticker, id.data_type, data, id.kwargs)

Load == \E id \in Identities : \E allow_expired \in BOOLEAN :
    load_cache(id.ticker, id.data_type, allow_expired, id.kwargs)

ForceRefresh == \E id \in Identities :
    force_refresh_cache(id.ticker, id.data_type, id.kwargs)

UpdateTime == \E id \in Identities :
    get_data_update_time(id.ticker, id.data_type, id.kwargs)

Next == Tick \/ Save \/ Load \/ ForceRefresh \/ UpdateTime

Spec == Init /\ [][Next]_vars

----------------------------------------------------------------------------
(* The cache on a disk that fails and is damaged: writes fail part-way,    *)
(* files are damaged from outside, and the janitor and the bulk clear run. *)

\* the instants at which the callers act: Friday 15:00 of week 1 and Friday
\* 17:00 of week 2 (exchange-local time)
DiskInstants == { EtInstant(1, 4, 15), EtInstant(2, 4, 17) }

InitDisk ==
    /\ now = EtInstant(1, 4, 15)
    /\ hostOffset \in HostUtcOffsets
    /\ pkl = [k \in Keys |-> NoFile]
    /\ meta = [k \in Keys |-> NoFile]
    /\ last = NoCall
    /\ running = NoOverlap
    /\ session = SessionStart

TickDisk ==
    /\ \E t \in DiskInstants : t > now /\ now' = t
    /\ UNCHANGED <<session, running, hostOffset, pkl, meta, last>>

SaveFails == \E id \in Identities : \E data \in Blobs : \E stage \in WriteStages :
    save_cache_write_failure(id.ticker, id.data_type, data, id.kwargs, stage)

Sweep == cleanup_old_cache

SweepInterrupted == \E done \in SUBSET Keys : cleanup_old_cache_interrupted(done)

Cleanup == cleanup_cache

ClearAll == clear_all_cache

Damage == \E k \in Keys : \E kind \in DamageKinds : damage(k, kind)

NextDisk ==
    \/ TickDisk \/ Save \/ Load \/ ForceRefresh \/ UpdateTime
    \/ SaveFails \/ Sweep \/ SweepInterrupted \/ Cleanup \/ ClearAll \/ Damage

SpecDisk == InitDisk /\ [][NextDisk]_vars

----------------------------------------------------------------------------
(* The janitor and the summary on a directory with damaged files and files *)
(* that cannot be removed.                                                 *)

InitStats ==
    /\ now = EtInstant(1, 4, 15)
    /\ hostOffset \in HostUtcOffsets
    /\ pkl = [k \in Keys |-> NoFile]
    /\ meta = [k \in Keys |-> NoFile]
    /\ last = NoCall
    /\ running = NoOverlap
    /\ session = SessionStart

\* the tickers get_cache_info is asked about: none, and a ticker in either case
TickerLower == <<"a">>
TickerFilters == { NoTicker, TickerA, TickerLower, TickerAStock }

SweepFails ==
    \E k \in Keys : \E done \in SUBSET (Keys \ {k}) : \E stage \in RemoveStages :
        cleanup_old_cache_remove_fails(done, k, stage)

Info == \E ticker \in TickerFilters : get_cache_info(ticker)

NextStats ==
    TickDisk \/ Save \/ Load \/ Damage \/ Sweep \/ SweepFails \/ Cleanup \/ Info

SpecStats == InitStats /\ [][NextStats]_vars

----------------------------------------------------------------------------
(* Calls that overlap: two writes, a read and a forced refresh of one      *)
(* identity, each made once, at any time and at any pace.                  *)

\* the number of hours that pass while the calls are under way
MaxRaceHours == 2

Writers == {"save_1", "save_2"}
Readers == {"load"}
Deleters == {"force_refresh"}
Calls == Writers \cup Readers \cup Deleters

\* the blob each of the two writes saves
BlobOf(c) == IF c = "save_1" THEN 1 ELSE 2

RaceStart == EtInstant(1, 4, 15)

InitRace ==
    /\ now = RaceStart
    /\ hostOffset \in HostUtcOffsets
    /\ pkl = [k \in Keys |-> NoFile]
    /\ meta = [k \in Keys |-> NoFile]
    /\ last = NoCall
    /\ running = [c \in Calls |-> Idle]
    /\ session = SessionStart

TickRace ==
    /\ now < RaceStart + MaxRaceHours
    /\ now' = now + 1
    /\ UNCHANGED <<session, running, hostOffset, pkl, meta, last>>

NextRace ==
    \/ TickRace
    \/ \E c \in Writers : save_cache_open_blob(c, BlobOf(c))
    \/ \E c \in Writers : save_cache_dump_blob(c)
    \/ \E c \in Writers : save_cache_open_meta(c)
    \/ \E c \in Writers : save_cache_dump_meta(c)
    \/ \E c \in Readers : \E allow_expired \in BOOLEAN :
         load_cache_exists(c, allow_expired)
    \/ \E c \in Readers : load_cache_read_meta(c)
    \/ \E c \in Readers : load_cache_open_meta(c)
    \/ \E c \in Readers : load_cache_dump_meta(c)
    \/ \E c \in Readers : load_cache_read_blob(c)
    \/ \E c \in Deleters : force_refresh_cache_remove_blob(c)
    \/ \E c \in Deleters : force_refresh_cache_remove_meta(c)

SpecRace == InitRace /\ [][NextRace]_vars

----------------------------------------------------------------------------
(* The cache under an hourly clock: one entry is written in the write      *)
(* window and its update time is asked for as the hours pass.              *)

\* Friday 00:00 of week 1, exchange-local time
ClockStart == EtInstant(1, 4, 0)

StoreEmpty == \A k \in Keys : pkl[k] = NoFile /\ meta[k] = NoFile

InitClock ==
    /\ now = ClockStart
    /\ hostOffset \in HostUtcOffsets
    /\ pkl = [k \in Keys |-> NoFile]
    /\ meta = [k \in Keys |-> NoFile]
    /\ last = NoCall
    /\ running = NoOverlap
    /\ session = SessionStart

TickHour ==
    /\ now < ClockStart + WriteWindow + MaxAge
    /\ now' = now + 1
    /\ UNCHANGED <<session, running, hostOffset, pkl, meta, last>>

SaveOnce ==
    /\ StoreEmpty
    /\ now < ClockStart + WriteWindow
    /\ \E id \in Identities : save_cache(id.ticker, id.data_type, 1, id.kwargs)

NextClock == TickHour \/ SaveOnce \/ UpdateTime

SpecClock == InitClock /\ [][NextClock]_vars

----------------------------------------------------------------------------
(* Key derivation on its own: the caller derives the key of an identity.   *)

\* the largest number of parameters of an identity
MaxParams == 2

ParamNames == { <<"a">>, <<"b">>, <<"B">> }
ParamValues == { [int |-> 1], [int |-> 2], [str |-> <<"b">>] }

\* the dicts of at most MaxParams parameters, as item lists in every
\* insertion order
KwargsLists ==
    { kw \in UNION { [1..n -> ParamNames \X ParamValues] : n \in 0..MaxParams } :
        \A i, j \in 1..Len(kw) : i # j => kw[i][1] # kw[j][1] }

KeyTickers == { TickerA, TickerAStock }
KeyDataTypes == { eps_ttm, stock_data, DataTypeData }

\* dict equality: the same items, whatever the insertion order
SameDict(kw1, kw2) ==
    { kw1[i] : i \in 1..Len(kw1) } = { kw2[i] : i \in 1..Len(kw2) }

InitKey ==
    /\ now = ClockStart
    /\ hostOffset = 0
    /\ pkl = [k \in Keys |-> NoFile]
    /\ meta = [k \in Keys |-> NoFile]
    /\ last = NoCall
    /\ running = NoOverlap
    /\ session = SessionStart

DeriveKey ==
    /\ \E ticker \in KeyTickers : \E data_type \in KeyDataTypes :
         \E kwargs \in KwargsLists :
            last' = [op |-> "_get_cache_key", ticker |-> ticker,
                     data_type |-> data_type, kwargs |-> kwargs,
                     ret |-> _get_cache_key(ticker, data_type, kwargs)]
    /\ UNCHANGED <<session, running, now, hostOffset, pkl, meta>>

NextKey == DeriveKey

SpecKey == InitKey /\ [][NextKey]_vars

----------------------------------------------------------------------------
(* Properties *)

\* a step that is a call of the operation op (time passes in Tick steps only)
CallStep(op) == now' = now /\ last'.op = op

\* both files of the key are there and readable
EntryComplete(k) ==
    /\ pkl[k].file = "pickle"
    /\ meta[k].file = "json"
    /\ "created_at" \in DOMAIN JsonLoad(meta[k])

\* the created_at stored for the key
CreatedAt(k) == Fromisoformat(JsonLoad(meta[k]).created_at)

\* the instant at which an entry with this created_at was written
WrittenAt(created_at) == created_at - hostOffset

\* C1: round trip.  A load_cache that follows a save_cache of the same
\* identity, at a time at which the entry written is not expired, returns
\* the blob that was written.
C1_RoundTrip ==
    [][ ( /\ now' = now
          /\ last.op = "save_cache"
          /\ last'.op = "load_cache"
          /\ last'.ticker = last.ticker
          /\ last'.data_type = last.data_type
          /\ SameDict(last'.kwargs, last.kwargs)
          /\ ~ _is_cache_expired(last.data_type, CreatedAt(last.ret)) )
        => ( /\ last'.ret.kind = "tuple"
             /\ last'.ret.data = last.data ) ]_vars

\* C1 witness: a load_cache without allow_expired has returned the second
\* blob from an entry written in the current hour.
C1_Witness ==
    /\ last.op = "load_cache"
    /\ ~ last.allow_expired
    /\ last.ret.kind = "tuple"
    /\ last.ret.data = 2
    /\ last.ret.metadata.created_at = Isoformat(DatetimeNow)
    /\ pkl[_get_cache_key(last.ticker, last.data_type, last.kwargs)] = PickleDump(2)

\* C2: stale fallback.  A load_cache of an entry that is complete and expired
\* at the time of the read returns None when allow_expired is false, and the
\* stored blob with metadata whose is_expired is true when it is true.
C2_StaleFallback ==
    [][ CallStep("load_cache") =>
        LET k == _get_cache_key(last'.ticker, last'.data_type, last'.kwargs)
        IN  ( /\ EntryComplete(k)
              /\ _is_cache_expired(last'.data_type, CreatedAt(k)) )
            => IF last'.allow_expired
               THEN /\ last'.ret.kind = "tuple"
                    /\ last'.ret.data = PickleLoad(pkl[k])
                    /\ last'.ret.metadata.is_expired = TRUE
               ELSE last'.ret = None ]_vars

\* C2 witness: an expired entry of a registered data type has been served
\* by a load_cache with allow_expired, flagged as expired.
C2_Witness ==
    /\ last.op = "load_cache"
    /\ last.allow_expired
    /\ last.data_type \in DOMAIN cache_expiry
    /\ last.ret.kind = "tuple"
    /\ last.ret.metadata.is_expired
    /\ last.ret.metadata.created_at # Isoformat(DatetimeNow)

\* C3: the key does not depend on the insertion order of the parameters:
\* every item list of the same dict gives the key that was derived.
C3_KeyOrderInsensitive ==
    last.op = "_get_cache_key" =>
        \A kwargs \in KwargsLists :
            SameDict(kwargs, last.kwargs) =>
                _get_cache_key(last.ticker, last.data_type, kwargs) = last.ret

\* C3 witness: a key has been derived from two parameters inserted in
\* descending order of their names.
C3_Witness ==
    /\ last.op = "_get_cache_key"
    /\ Len(last.kwargs) = 2
    /\ StrLess(last.kwargs[2][1], last.kwargs[1][1])

\* two identities are the same identity
SameIdentity(ticker1, data_type1, kwargs1, ticker2, data_type2, kwargs2) ==
    ticker1 = ticker2 /\ data_type1 = data_type2 /\ SameDict(kwargs1, kwargs2)

\* C4: key derivation is injective: an identity that differs from the one
\* whose key was derived in its ticker, its data type or a parameter has a
\* different identity string and a different key.
C4_KeyInjective ==
    last.op = "_get_cache_key" =>
        \A ticker \in KeyTickers : \A data_type \in KeyDataTypes :
            \A kwargs \in KwargsLists :
                ~ SameIdentity(ticker, data_type, kwargs,
                               last.ticker, last.data_type, last.kwargs)
                => /\ KeyData(ticker, data_type, kwargs)
                        # KeyData(last.ticker, last.data_type, last.kwargs)
                   /\ _get_cache_key(ticker, data_type, kwargs) # last.ret

\* the metadata file with the persisted is_expired flag absent, true or false
WithFlag(metaFile, flag) ==
    LET metadata == JsonLoad(metaFile)
    IN  IF flag = "absent" THEN JsonDump(DictRemove(metadata, "is_expired"))
        ELSE JsonDump(DictSet(metadata, "is_expired", flag = "true"))

\* C5: the persisted is_expired flag has no influence: whatever flag the
\* metadata file of an entry holds, load_cache (with either allow_expired)
\* returns an entry or None alike, with the same is_expired, and
\* get_data_update_time returns the same record.
C5_FlagNotTrusted ==
    \A id \in Identities :
        LET k == KeyOf(id)
        IN  (meta[k].file = "json" /\ "created_at" \in DOMAIN JsonLoad(meta[k])) =>
            \A flag \in {"absent", "true", "false"} :
                LET other == WithFlag(meta[k], flag)
                IN  /\ \A allow_expired \in BOOLEAN :
                        LET r1 == LoadResult(pkl[k], meta[k], id.data_type, allow_expired).ret
                            r2 == LoadResult(pkl[k], other, id.data_type, allow_expired).ret
                        IN  /\ r1.kind = r2.kind
                            /\ r1.kind = "tuple" =>
                                  /\ r1.data = r2.data
                                  /\ r1.metadata.is_expired = r2.metadata.is_expired
                    /\ UpdateTimeResult(other, id.data_type)
                          = UpdateTimeResult(meta[k], id.data_type)

\* C5 witness: get_data_update_time has reported a freshness that differs
\* from the flag persisted in the metadata file of the entry.
C5_Witness ==
    /\ last.op = "get_data_update_time"
    /\ last.ret.kind = "dict"
    /\ LET k == _get_cache_key(last.ticker, last.data_type, last.kwargs)
       IN  /\ EntryComplete(k)
           /\ "is_expired" \in DOMAIN JsonLoad(meta[k])
           /\ JsonLoad(meta[k]).is_expired # last.ret.is_expired
           /\ UpdateTimeResult(meta[k], last.data_type) = last.ret

\* C6: a data type without a registered policy is expired for every
\* created_at at every time, and a load_cache of such a type without
\* allow_expired returns None, also right after the entry was written.
C6_UnknownTypeExpired ==
    /\ [](\A created_at \in (DatetimeNow - 48)..(DatetimeNow + 48) :
            _is_cache_expired(DataTypeData, created_at))
    /\ [][ ( /\ CallStep("load_cache")
             /\ last'.data_type \notin DOMAIN cache_expiry
             /\ ~ last'.allow_expired )
           => last'.ret = None ]_vars

\* C6 witness: load_cache without allow_expired has returned None for an
\* entry of an unregistered type that was written in the current hour.
C6_Witness ==
    /\ last.op = "load_cache"
    /\ last.data_type \notin DOMAIN cache_expiry
    /\ ~ last.allow_expired
    /\ last.ret = None
    /\ LET k == _get_cache_key(last.ticker, last.data_type, last.kwargs)
       IN  /\ EntryComplete(k)
           /\ JsonLoad(meta[k]).data_type = last.data_type
           /\ CreatedAt(k) = DatetimeNow

\* the data type has a fixed-duration policy, a trading-calendar policy
HasTimedeltaRule(data_type) ==
    data_type \in DOMAIN cache_expiry /\ cache_expiry[data_type].rule = "timedelta"
HasTradingDayRule(data_type) ==
    data_type \in DOMAIN cache_expiry /\ cache_expiry[data_type].rule = "trading_day"

\* the hours passed since the entry of the key was written
Age(k) == now - WrittenAt(CreatedAt(k))

\* the freshness the cache reports for the entry of the identity
ReportedExpired(id) == UpdateTimeResult(meta[KeyOf(id)], id.data_type).is_expired

\* C7: an entry of a data type with a fixed duration D is expired exactly
\* when its age is greater than D, so that it is fresh at the age D; with
\* a duration of one day it is fresh at 23 hours and expired at 25 hours.
C7_FixedDuration ==
    \A id \in Identities :
        (EntryComplete(KeyOf(id)) /\ HasTimedeltaRule(id.data_type)) =>
            LET k == KeyOf(id)
                D == cache_expiry[id.data_type].hours
            IN  /\ ReportedExpired(id) = (Age(k) > D)
                /\ (LoadResult(pkl[k], meta[k], id.data_type, FALSE).ret = None)
                      = (Age(k) > D)
                /\ \A duration \in {24, D} :
                      TimedeltaExpired(CreatedAt(k), duration) = (Age(k) > duration)
                /\ Age(k) = 23 => ~ TimedeltaExpired(CreatedAt(k), 24)
                /\ Age(k) = 25 => TimedeltaExpired(CreatedAt(k), 24)

\* C7 witness: get_data_update_time reports an entry with a duration of one
\* week as fresh at the age of exactly one week.
C7_Witness ==
    /\ last.op = "get_data_update_time"
    /\ HasTimedeltaRule(last.data_type)
    /\ last.ret.kind = "dict"
    /\ ~ last.ret.is_expired
    /\ LET k == _get_cache_key(last.ticker, last.data_type, last.kwargs)
       IN  /\ Age(k) = cache_expiry[last.data_type].hours
           /\ UpdateTimeResult(meta[k], last.data_type) = last.ret

\* the 16:00 close of a date, on the exchange's clock
CloseOf(date) == Localize(Combine(date, CloseHour), EtOffset)

\* the most recent Monday-Friday date at or before a date
LastWeekdayUpTo(date) ==
    CHOOSE d \in (date - 6)..date :
        Weekday(d) < 5 /\ \A e \in (d + 1)..date : Weekday(e) >= 5

\* C8: the boundary is the 16:00 close of the most recent weekday at or
\* before today on a weekend day, of the previous weekday on a weekday
\* before 16:00, and of today on a weekday from 16:00 on; it falls on a
\* Monday-Friday, is not later than now, and no weekday 16:00 close lies
\* strictly between it and now.
C8_LastTradingClose ==
    LET now_et == DatetimeNowTz(EtOffset)
        date == DateOf(now_et.wall)
        hour == HourOf(now_et.wall)
        boundary == _get_last_trading_close(now_et)
    IN  /\ Weekday(date) >= 5 => boundary = CloseOf(LastWeekdayUpTo(date))
        /\ (Weekday(date) < 5 /\ hour < 16) =>
              boundary = CloseOf(LastWeekdayUpTo(date - 1))
        /\ (Weekday(date) < 5 /\ hour >= 16) => boundary = CloseOf(date)
        /\ Weekday(DateOf(boundary.wall)) < 5
        /\ HourOf(boundary.wall) = 16
        /\ ~ AwareLess(now_et, boundary)
        /\ \A d \in (date - 7)..date :
              Weekday(d) < 5 =>
                  ~ (AwareLess(boundary, CloseOf(d)) /\ AwareLess(CloseOf(d), now_et))

\* C8 witness: on a Monday before 16:00 the boundary is the close of the
\* Friday before, and get_data_update_time has used it for a price entry.
C8_Witness ==
    LET now_et == DatetimeNowTz(EtOffset)
        date == DateOf(now_et.wall)
    IN  /\ Weekday(date) = 0
        /\ HourOf(now_et.wall) < 16
        /\ _get_last_trading_close(now_et) = CloseOf(date - 3)
        /\ last.op = "get_data_update_time"
        /\ HasTradingDayRule(last.data_type)
        /\ last.ret.kind = "dict"
        /\ last.ret = UpdateTimeResult(
              meta[_get_cache_key(last.ticker, last.data_type, last.kwargs)],
              last.data_type)

\* an entry of a trading-calendar type written on Friday 17:00 of week 1 is
\* asked for on Monday 09:00 of week 2 (exchange-local time)
FridayToMonday(id) ==
    /\ HasTradingDayRule(id.data_type)
    /\ EntryComplete(KeyOf(id))
    /\ WrittenAt(CreatedAt(KeyOf(id))) = EtInstant(1, 4, 17)
    /\ now = EtInstant(2, 0, 9)

CloseInstant(date) == Combine(date, CloseHour) - EtOffset

\* a weekday 16:00 close lies after the instant t1 and not after t2
CloseReached(t1, t2) ==
    \E d \in DateOf(t1 + EtOffset)..DateOf(t2 + EtOffset) :
        Weekday(d) < 5 /\ t1 < CloseInstant(d) /\ CloseInstant(d) <= t2

\* C10: an entry of a trading-calendar type created on a Monday at 10:00
\* exchange-local time is not expired on the same Monday at 15:00, and an
\* entry stays fresh as long as no weekday 16:00 close has been reached
\* since it was written.
C10_FreshWithinSession ==
    \A id \in Identities :
        (HasTradingDayRule(id.data_type) /\ EntryComplete(KeyOf(id))) =>
            LET written == WrittenAt(CreatedAt(KeyOf(id)))
            IN  /\ (written = EtInstant(2, 0, 10) /\ now = EtInstant(2, 0, 15))
                      => ~ ReportedExpired(id)
                /\ ~ CloseReached(written, now) => ~ ReportedExpired(id)

\* the key a call was made for
CallKey(call) == _get_cache_key(call.ticker, call.data_type, call.kwargs)

\* the key has both of its files or none
Paired(k) == (pkl[k].file = "missing") = (meta[k].file = "missing")

\* C11: load_cache returns None, and raises nothing, when the blob file or
\* the metadata file is missing, when the metadata file does not parse, and
\* when it parses to a record without a usable created_at.
C11_CorruptedReadsAbsent ==
    [][ CallStep("load_cache") =>
        LET k == CallKey(last')
        IN  ( \/ pkl[k].file = "missing"
              \/ meta[k].file = "missing"
              \/ meta[k].file # "json"
              \/ "created_at" \notin DOMAIN JsonLoad(meta[k]) )
            => last'.ret = None ]_vars

\* C12: the operations of the cache, also a save_cache that fails part-way,
\* keep the pairs together: when every key has both files or none before an
\* operation, every key has both files or none after it.
C12_PairInvariant ==
    [][ ( /\ now' = now
          /\ last'.op # "damage"
          /\ \A k \in Keys : Paired(k) )
        => \A k \in Keys : Paired(k)' ]_vars

\* C13: a save_cache that fails part-way raises to the caller and leaves the
\* cache as it was: a load_cache of the key returns after it what it would
\* have returned before it.
C13_FailedPutUnchanged ==
    [][ ( /\ CallStep("save_cache")
          /\ last'.ret \notin Keys )
        => /\ last'.ret.kind = "raise"
           /\ \A allow_expired \in BOOLEAN :
                LET k == CallKey(last')
                IN  LoadResult(pkl'[k], meta'[k], last'.data_type, allow_expired).ret
                    = LoadResult(pkl[k], meta[k], last'.data_type, allow_expired).ret
       ]_vars

\* C14: a save_cache that succeeds replaces whatever the key held: after it
\* the key has the blob and the metadata of this call, with created_at the
\* time of this call and nothing of an earlier entry, and a load_cache
\* returns this blob with this created_at.
C14_PutOverwrites ==
    [][ ( /\ CallStep("save_cache")
          /\ last'.ret \in Keys )
        => LET k == last'.ret
               metadata == JsonLoad(meta'[k])
               stale == LoadResult(pkl'[k], meta'[k], last'.data_type, TRUE).ret
               strict == LoadResult(pkl'[k], meta'[k], last'.data_type, FALSE).ret
           IN  /\ k = CallKey(last')
               /\ pkl'[k] = PickleDump(last'.data)
               /\ meta'[k].file = "json"
               /\ metadata.created_at = Isoformat(DatetimeNow)
               /\ metadata.ticker = last'.ticker
               /\ metadata.data_type = last'.data_type
               /\ "is_expired" \notin DOMAIN metadata
               /\ stale.kind = "tuple"
               /\ stale.data = last'.data
               /\ stale.metadata.created_at = Isoformat(DatetimeNow)
               /\ strict \in {None, stale} ]_vars

\* a second write of a key, at the later instant, with the other blob
C14_Witness ==
    /\ last.op = "save_cache"
    /\ last.ret \in Keys
    /\ last.data = 2
    /\ now = EtInstant(2, 4, 17)
    /\ pkl[last.ret] = PickleDump(2)
    /\ CreatedAt(last.ret) = DatetimeNow
    /\ LoadResult(pkl[last.ret], meta[last.ret], last.data_type, TRUE).ret.data = 2

\* C15: force_refresh_cache raises nothing, returns whether a file of the
\* key was there, and leaves the key without files; called again for the
\* same key right away it returns False.
C15_InvalidateIdempotent ==
    [][ CallStep("force_refresh_cache") =>
        LET k == CallKey(last')
        IN  /\ last'.ret \in BOOLEAN
            /\ last'.ret = (pkl[k].file # "missing" \/ meta[k].file # "missing")
            /\ EntryComplete(k) => last'.ret = TRUE
            /\ pkl'[k] = NoFile
            /\ meta'[k] = NoFile
            /\ \A allow_expired \in BOOLEAN :
                 LoadResult(pkl'[k], meta'[k], last'.data_type, allow_expired).ret = None
            /\ ( /\ last.op = "force_refresh_cache"
                 /\ CallKey(last) = k )
               => last'.ret = FALSE ]_vars

\* a forced refresh of a key that has no files
C15_Witness ==
    /\ last.op = "force_refresh_cache"
    /\ last.ret = FALSE
    /\ pkl[CallKey(last)] = NoFile
    /\ meta[CallKey(last)] = NoFile
    /\ \E k \in Keys : EntryComplete(k)

\* C16: when load_cache returns an entry, the metadata it returns is the
\* metadata it has written back to the metadata file, with last_accessed the
\* time of the read and is_expired the expiry computed by this read.
C16_ReadPersistsMetadata ==
    [][ ( /\ CallStep("load_cache")
          /\ last'.ret.kind = "tuple" )
        => LET k == CallKey(last')
           IN  /\ meta'[k] = JsonDump(last'.ret.metadata)
               /\ last'.ret.metadata.last_accessed = Isoformat(DatetimeNow)
               /\ last'.ret.metadata.is_expired
                  = _is_cache_expired(last'.data_type, CreatedAt(k))
               /\ last'.ret.metadata.created_at = JsonLoad(meta[k]).created_at ]_vars

\* a read, later than the write, that returned an entry it found expired
C16_Witness ==
    /\ last.op = "load_cache"
    /\ last.ret.kind = "tuple"
    /\ last.ret.metadata.is_expired
    /\ last.ret.metadata.last_accessed # last.ret.metadata.created_at
    /\ meta[CallKey(last)] = JsonDump(last.ret.metadata)

\* a sweep that ran to its end
SweepStep ==
    \/ CallStep("cleanup_old_cache") /\ last'.ret.kind = "dict"
    \/ CallStep("cleanup_cache")

\* the metadata file of the key is there and parses
MetaValid(k) == meta[k].file = "json"

C18_SweepPurgesHalfEntries ==
    [][ SweepStep => \A k \in Keys : Paired(k)' ]_vars

\* C19: a sweep leaves a cache in which a sweep finds nothing to remove and
\* changes nothing, and a sweep that is stopped part-way leaves a cache that
\* a full sweep brings to what a full sweep would have made of the cache
\* before.
C19_SweepIdempotent ==
    [][ /\ SweepStep =>
          /\ SweepStats(Keys)'.manually_removed = 0
          /\ PklWithout(SweepRemoved(Keys))' = pkl'
          /\ MetaWithout(SweepRemoved(Keys))' = meta'
        /\ ( /\ SweepStep
             /\ \/ last.op = "cleanup_cache"
                \/ last.op = "cleanup_old_cache" /\ last.ret.kind = "dict" )
           => /\ pkl' = pkl
              /\ meta' = meta
              /\ IF last'.op = "cleanup_cache"
                 THEN last'.ret = 0
                 ELSE last'.ret.manually_removed = 0
        /\ ( /\ CallStep("cleanup_old_cache")
             /\ last'.ret.kind = "killed" )
           => /\ PklWithout(SweepRemoved(Keys))' = PklWithout(SweepRemoved(Keys))
              /\ MetaWithout(SweepRemoved(Keys))' = MetaWithout(SweepRemoved(Keys))
      ]_vars

\* a sweep of a cache with entries that found nothing to remove
C19_Witness ==
    /\ last.op = "cleanup_old_cache"
    /\ last.ret.kind = "dict"
    /\ last.ret.manually_removed = 0
    /\ last.ret.total_files >= 1
    /\ \A k \in Keys : meta[k].file \in {"missing", "json"}

\* the keys that had a metadata file before the step and have none after it
EntriesRemoved == { k \in Keys : meta[k].file # "missing" /\ meta'[k].file = "missing" }

C21_ScanNeverAborts ==
    [][ now' = now =>
        /\ last'.op = "cleanup_old_cache" =>
             /\ last'.ret.kind = "dict"
             /\ \A k \in Keys :
                  (meta[k].file # "missing" /\ ~ MetaValid(k))
                  => pkl'[k] = NoFile /\ meta'[k] = NoFile
        /\ last'.op = "get_cache_info" =>
             /\ last'.ret.kind = "dict"
             /\ last'.ticker = NoTicker =>
                  last'.ret.total_files
                  = Cardinality({ k \in Keys : MetaValid(k)
                                    /\ "created_at" \in DOMAIN JsonLoad(meta[k]) })
      ]_vars

\* C22: get_cache_info, with a ticker or without, leaves every blob file
\* and every metadata file as it is.
C22_SummarizeReadOnly ==
    [][ CallStep("get_cache_info") => pkl' = pkl /\ meta' = meta ]_vars

\* a summary for one ticker has counted an entry that a read has marked
C22_Witness ==
    /\ last.op = "get_cache_info"
    /\ last.ticker # NoTicker
    /\ last.ret.total_files >= 1
    /\ \E k \in Keys : MetaValid(k) /\ "is_expired" \in DOMAIN JsonLoad(meta[k])
    /\ \E k \in Keys : meta[k] = Garbage

\* two characters are the same letter, in either case
SameLetter(c, d) ==
    \/ c = d
    \/ \E i \in DOMAIN AsciiLower : {c, d} = {AsciiLower[i], AsciiUpper[i]}

\* two strings are equal when the case of the letters is ignored
EqualIgnoringCase(str1, str2) ==
    /\ Len(str1) = Len(str2)
    /\ \A i \in 1..Len(str1) : SameLetter(str1[i], str2[i])

\* the keys whose metadata can be used and names this ticker, in any case
EntriesOfTicker(ticker) ==
    { k \in Keys :
        /\ MetaValid(k)
        /\ "created_at" \in DOMAIN JsonLoad(meta[k])
        /\ "ticker" \in DOMAIN JsonLoad(meta[k])
        /\ EqualIgnoringCase(JsonLoad(meta[k]).ticker, ticker) }

\* C23: get_cache_info for a ticker counts exactly the entries whose
\* metadata can be used and names that ticker, the case of the letters
\* ignored: total_files is their number, and the size, the counts per
\* ticker and per data type and the oldest and newest time come from them
\* alone.
C23_SummarizeTickerFilter ==
    [][ ( /\ CallStep("get_cache_info")
          /\ last'.ticker # NoTicker )
        => LET entries == EntriesOfTicker(last'.ticker)
               ret == last'.ret
           IN  /\ ret.total_files = Cardinality(entries)
               /\ ret.total_size_mb = RoundedMB(BlobBytes(entries))
               /\ DOMAIN ret.by_ticker = { JsonLoad(meta[k]).ticker : k \in entries }
               /\ \A t \in DOMAIN ret.by_ticker :
                    /\ EqualIgnoringCase(t, last'.ticker)
                    /\ ret.by_ticker[t]
                       = Cardinality({ k \in entries : JsonLoad(meta[k]).ticker = t })
               /\ DOMAIN ret.by_data_type = { JsonLoad(meta[k]).data_type : k \in entries }
               /\ \A d \in DOMAIN ret.by_data_type :
                    ret.by_data_type[d]
                    = Cardinality({ k \in entries : JsonLoad(meta[k]).data_type = d })
               /\ IF entries = {}
                  THEN ret.oldest_cache = None /\ ret.newest_cache = None
                  ELSE /\ \E k \in entries : ret.oldest_cache = Strftime(CreatedAt(k))
                       /\ \E k \in entries : ret.newest_cache = Strftime(CreatedAt(k))
                       /\ \A k \in entries :
                            /\ Strftime(CreatedAt(k)).ymd_hms >= ret.oldest_cache.ymd_hms
                            /\ Strftime(CreatedAt(k)).ymd_hms <= ret.newest_cache.ymd_hms
       ]_vars

\* a summary asked for in lower case has counted the one entry of the
\* ticker and has left out the entry of the other ticker
C23_Witness ==
    /\ last.op = "get_cache_info"
    /\ last.ticker = TickerLower
    /\ last.ret.total_files = 1
    /\ last.ret.total_size_mb > 0
    /\ DOMAIN last.ret.by_ticker = {TickerA}
    /\ \E k \in Keys :
         /\ EntryComplete(k)
         /\ JsonLoad(meta[k]).ticker = TickerAStock

\* the calls that are made for one key
KeyedOps == {"save_cache", "load_cache", "force_refresh_cache", "get_data_update_time"}

\* a file of the key is there before the step and gone after it
FileRemoved(k) ==
    \/ pkl[k].file # "missing" /\ pkl'[k].file = "missing"
    \/ meta[k].file # "missing" /\ meta'[k].file = "missing"

\* C24: save_cache, load_cache, force_refresh_cache and get_data_update_time
\* leave the files of every key but their own as they are, and a file of
\* the cache is removed only by force_refresh_cache for its key, by a sweep
\* or by clear_all_cache.
C24_NoHiddenRemoval ==
    [][ ( /\ now' = now
          /\ last'.op # "damage" )
        => /\ last'.op \in KeyedOps =>
                \A k \in Keys \ {CallKey(last')} :
                    pkl'[k] = pkl[k] /\ meta'[k] = meta[k]
           /\ \A k \in Keys :
                FileRemoved(k) =>
                    \/ last'.op = "force_refresh_cache" /\ CallKey(last') = k
                    \/ last'.op \in {"cleanup_old_cache", "cleanup_cache", "clear_all_cache"}
       ]_vars

\* a write and a read were made while another key had metadata that does
\* not parse, and its files are still there
C24_Witness ==
    /\ last.op \in {"save_cache", "load_cache"}
    /\ last.ret \in Keys \/ last.ret.kind = "tuple"
    /\ \E k \in Keys \ {CallKey(last)} :
         /\ meta[k] = Garbage
         /\ pkl[k].file = "pickle"

\* the data type has an entry in cache_expiry
HasPolicy(data_type) == data_type \in DOMAIN cache_expiry

\* C27: an entry of a data type with an expiry rule is fresh when it has
\* just been written: whatever the hour and the day of the write and
\* whatever the time zone of the host, a load_cache without allow_expired
\* right after the save_cache returns the entry.
C27_FreshWhenWritten ==
    [][ ( /\ CallStep("save_cache")
          /\ last'.ret \in Keys
          /\ HasPolicy(last'.data_type) )
        => LoadResult(pkl'[last'.ret], meta'[last'.ret],
                      last'.data_type, FALSE).ret.kind = "tuple" ]_vars

\* C28: a load_cache that returns None leaves every blob file and every
\* metadata file as it is.
C28_AbsentReadNoEffect ==
    [][ ( /\ CallStep("load_cache")
          /\ last'.ret = None )
        => pkl' = pkl /\ meta' = meta ]_vars

\* the metadata without the two fields a read sets
WithoutReadFields(metadata) ==
    DictRemove(DictRemove(metadata, "last_accessed"), "is_expired")

\* C29: load_cache changes nothing but the fields last_accessed and
\* is_expired of the metadata of its key: the blob, created_at, ticker,
\* data_type and kwargs stay, so that the expiry of the entry is the same
\* after the read as before it.
C29_ReadKeepsCreatedAt ==
    [][ CallStep("load_cache") =>
        LET k == CallKey(last')
        IN  /\ pkl' = pkl
            /\ \A j \in Keys \ {k} : meta'[j] = meta[j]
            /\ meta'[k] # meta[k] =>
                 /\ meta[k].file = "json"
                 /\ meta'[k].file = "json"
                 /\ WithoutReadFields(JsonLoad(meta'[k]))
                    = WithoutReadFields(JsonLoad(meta[k]))
                 /\ JsonLoad(meta'[k]).created_at = JsonLoad(meta[k]).created_at
                 /\ _is_cache_expired(last'.data_type,
                                      Fromisoformat(JsonLoad(meta'[k]).created_at))
                    = _is_cache_expired(last'.data_type, CreatedAt(k)) ]_vars

\* a read at a later hour than the write has set last_accessed and has
\* left the blob and created_at as written
C29_Witness ==
    /\ last.op = "load_cache"
    /\ last.ret.kind = "tuple"
    /\ EntryComplete(CallKey(last))
    /\ JsonLoad(meta[CallKey(last)]).last_accessed = Isoformat(DatetimeNow)
    /\ WrittenAt(CreatedAt(CallKey(last))) < now
    /\ PickleLoad(pkl[CallKey(last)]) = last.ret.data

\* the data types the calls are made with
CalledDataTypes == { id.data_type : id \in Identities }

HasWritten(c) == running[c].pc \in {"dump_meta", "done"}

\* C25: a load_cache that overlaps writes of its key returns the blob of
\* one write with the metadata of the same write: the created_at it returns
\* is the created_at of the save_cache whose blob it returns.
C25_PutAtomic ==
    \A c \in Readers :
        (running[c].pc = "done" /\ running[c].ret.kind = "tuple") =>
            \E w \in Writers :
                /\ HasWritten(w)
                /\ running[c].ret.data = running[w].data
                /\ running[c].ret.metadata.created_at = running[w].metadata.created_at

\* every call has returned or was not made
Quiescent == \A c \in Calls : running[c].pc \in {"idle", "done"}

\* C26: a load_cache that overlaps a force_refresh_cache of its key raises
\* nothing and returns None or a complete entry, and once all calls have
\* returned the key has both files or none: the read has not made a
\* metadata file for the entry that was removed.
C26_DeleteNotTorn ==
    /\ \A c \in Readers :
         running[c].pc = "done" => running[c].ret.kind \in {"None", "tuple"}
    /\ Quiescent => Paired(RaceKey)

----------------------------------------------------------------------------
(* get_data_update_time against the read path.                             *)

\* C31: get_data_update_time agrees with load_cache: it returns a status
\* record exactly when load_cache with allow_expired=True returns an entry
\* in the same store at the same instant, the is_expired of the record is
\* the is_expired of the metadata load_cache returns, and the call leaves
\* every file as it was.
C31_UpdateTimeAgreesWithLoad ==
    [][CallStep("get_data_update_time") =>
        LET k == CallKey(last')
            load == LoadResult(pkl[k], meta[k], last'.data_type, TRUE).ret
        IN  /\ (last'.ret.kind = "dict") = (load.kind = "tuple")
            /\ load.kind = "tuple" =>
                 last'.ret.is_expired = load.metadata.is_expired
            /\ pkl' = pkl
            /\ meta' = meta]_vars

----------------------------------------------------------------------------
(* The bulk clear.                                                         *)

\* the files of the cache directory
FilesPresent ==
    Cardinality({ k \in Keys : pkl[k].file # "missing" })
    + Cardinality({ k \in Keys : meta[k].file # "missing" })

\* the key has no file
NoEntry(k) == pkl[k] = NoFile /\ meta[k] = NoFile

\* C32: after clear_all_cache no blob file and no metadata file remains for
\* any key, load_cache (strict or allow_expired) and get_data_update_time
\* return None for every identity, get_cache_info counts zero entries under
\* every ticker filter, and the call returns the number of files it removed,
\* which is two for every complete entry when the store holds only complete
\* entries.
C32_ClearEmptiesStore ==
    [][CallStep("clear_all_cache") =>
        /\ \A k \in Keys : pkl'[k] = NoFile /\ meta'[k] = NoFile
        /\ \A id \in Identities :
             /\ \A allow_expired \in BOOLEAN :
                  LoadResult(pkl'[KeyOf(id)], meta'[KeyOf(id)],
                             id.data_type, allow_expired).ret = None
             /\ UpdateTimeResult(meta'[KeyOf(id)], id.data_type) = None
        /\ \A t \in TickerFilters : CacheInfo(t)'.total_files = 0
        /\ last'.ret = FilesPresent
        /\ (\A k \in Keys : EntryComplete(k) \/ NoEntry(k)) =>
             last'.ret = 2 * Cardinality({ k \in Keys : EntryComplete(k) })]_vars

\* the bulk clear has removed the four files of two complete entries
C32_Witness ==
    /\ last.op = "clear_all_cache"
    /\ last.ret = 4
    /\ \A k \in Keys : pkl[k] = NoFile /\ meta[k] = NoFile

----------------------------------------------------------------------------
(* The fetch functions of main.py: they read the cache first, call the     *)
(* upstream API when they must, and fall back to the cache when the        *)
(* upstream refuses.                                                       *)

\* the number of API calls of a day at which the session limits itself
ApiCallLimit == 50

\* increment_api_call_count on the session state s
increment_api_call_count(s) ==
    LET today == DateOf(DatetimeNow)
        reset == IF s.api_call_date # today
                 THEN [s EXCEPT !.api_call_count = 0,
                                !.api_call_date = today,
                                !.rate_limited = FALSE]
                 ELSE s
        counted == [reset EXCEPT !.api_call_count = @ + 1]
    IN  IF counted.api_call_count >= ApiCallLimit
        THEN [counted EXCEPT !.rate_limited = TRUE]
        ELSE counted

\* sub in str
Contains(str, sub) ==
    \E i \in 1..(Len(str) - Len(sub) + 1) : SubSeq(str, i, i + Len(sub) - 1) = sub

\* the test both safe_api_call and the except blocks make on str(e): one of
\* "rate limit", "too many requests", "429" is in the lowered message
IsRateLimitError(message) ==
    LET \* str.lower()
        Lower(str) ==
            [i \in 1..Len(str) |->
                IF \E j \in DOMAIN AsciiUpper : AsciiUpper[j] = str[i]
                THEN AsciiLower[CHOOSE j \in DOMAIN AsciiUpper : AsciiUpper[j] = str[i]]
                ELSE str[i]]
        error_msg == Lower(message)
    IN  \/ Contains(error_msg, <<"r","a","t","e"," ","l","i","m","i","t">>)
        \/ Contains(error_msg, <<"t","o","o"," ","m","a","n","y"," ",
                                 "r","e","q","u","e","s","t","s">>)
        \/ Contains(error_msg, <<"4","2","9">>)

\* a rate-limit error that leaves the session as it was
RateLimitIgnored(s) == s

\* the session state after a rate-limit error has been seen
RateLimitSeen(s) == [s EXCEPT !.rate_limited = TRUE, !.using_cached_data = TRUE]

\* save_cache(ticker, data_type, data) on the files of store
save_cache_in(store, ticker, data_type, data) ==
    LET cache_key == _get_cache_key(ticker, data_type, <<>>)
        metadata == [ticker |-> ticker,
                     data_type |-> data_type,
                     created_at |-> Isoformat(DatetimeNow),
                     last_accessed |-> Isoformat(DatetimeNow),
                     kwargs |-> <<>>]
    IN  [pkl |-> [store.pkl EXCEPT ![cache_key] = PickleDump(data)],
         meta |-> [store.meta EXCEPT ![cache_key] = JsonDump(metadata)]]

\* load_cache(ticker, data_type, allow_expired) on the files of store: what
\* it returns and the files it leaves
load_cache_in(store, ticker, data_type, allow_expired) ==
    LET cache_key == _get_cache_key(ticker, data_type, <<>>)
        res == LoadResult(store.pkl[cache_key], store.meta[cache_key],
                          data_type, allow_expired)
    IN  [ret |-> res.ret,
         store |-> [pkl |-> store.pkl,
                    meta |-> [store.meta EXCEPT ![cache_key] = res.metaFile]]]

\* the outcome of a fetch: what it returns, the files and the session state
\* it leaves, and how many upstream calls it made
Outcome(ret, store, s, api_calls) ==
    [ret |-> ret, store |-> store, session |-> s, api_calls |-> api_calls]

\* get_stock_data and get_eps_ttm: the same steps on their data type
FetchOutcome(ticker, data_type, force_refresh, upstream) ==
    LET strict == IF force_refresh
                  THEN [ret |-> None, store |-> [pkl |-> pkl, meta |-> meta]]
                  ELSE load_cache_in([pkl |-> pkl, meta |-> meta], ticker, data_type, FALSE)
    IN  IF strict.ret.kind = "tuple"
        THEN Outcome(strict.ret, strict.store, session, 0)
        ELSE IF strict.ret.kind = "raise"
        THEN Outcome(strict.ret, strict.store, session, 0)
        ELSE IF session.rate_limited
        THEN LET stale == load_cache_in(strict.store, ticker, data_type, TRUE)
             IN  IF stale.ret.kind = "tuple"
                 THEN Outcome(stale.ret, stale.store,
                              [session EXCEPT !.using_cached_data = TRUE], 0)
                 ELSE Outcome(Tuple(None, None), stale.store, session, 0)
        ELSE LET counted == increment_api_call_count(session)
             IN  IF upstream.kind = "ok"
                 THEN Outcome(Tuple(upstream.value, None),
                              save_cache_in(strict.store, ticker, data_type,
                                            upstream.value),
                              counted, 1)
                 ELSE IF IsRateLimitError(upstream.message)
                 THEN LET stale == load_cache_in(strict.store, ticker, data_type, TRUE)
                      IN  IF stale.ret.kind \in {"tuple", "raise"}
                          THEN Outcome(stale.ret, stale.store, RateLimitSeen(counted), 1)
                          ELSE Outcome(Tuple(None, None), stale.store,
                                       RateLimitSeen(counted), 1)
                 ELSE Outcome(Tuple(None, None), strict.store, counted, 1)

\* the dict of estimates get_forward_eps_estimates builds from stock.info
\* when info names no earnings date and no fiscal year end: the current
\* calendar year (a year is 52 weeks here) carries info['forwardEps'], the
\* next year carries None
ForwardEpsOf(info) ==
    LET year == DateOf(DatetimeNow) \div 364
    IN  [fy_current |-> year,
         current |-> DictGet(info, "forwardEps", None),
         fy_next |-> year + 1,
         next |-> None]

\* the dict of the except block: both years carry None
EmptyForwardEps ==
    LET current_year == DateOf(DatetimeNow) \div 364
    IN  [fy_current |-> current_year,
         current |-> None,
         fy_next |-> current_year + 1,
         next |-> None]

\* the first half of the try block of get_forward_eps_estimates: stock.info
\* from the cache or from the upstream, or the exception raised on the way
InfoOutcome(store, ticker, force_refresh, upstream) ==
    LET \* str(KeyError('created_at'))
        key_error == <<"'","c","r","e","a","t","e","d","_","a","t","'">>
        \* the message of the exception raised when the session is limited
        \* and no stock_info is cached: "API" and twelve Chinese characters,
        \* each written "?" here (none is an ASCII letter or digit)
        no_cache == <<"A","P","I","?","?","?","?","?","?","?","?","?","?","?","?">>
        GotInfo(info, files, s, api_calls) ==
            [kind |-> "info", info |-> info, store |-> files,
             session |-> s, api_calls |-> api_calls]
        Raised(message, files, s, api_calls) ==
            [kind |-> "raise", message |-> message, store |-> files,
             session |-> s, api_calls |-> api_calls]
        \* yf.Ticker(ticker), increment_api_call_count(), stock.info, save_cache
        Called(files) ==
            IF upstream.kind = "ok"
            THEN GotInfo(upstream.value,
                      save_cache_in(files, ticker, stock_info, upstream.value),
                      increment_api_call_count(session), 1)
            ELSE Raised(upstream.message, files,
                        increment_api_call_count(session), 1)
        \* the session is limited: load_cache with allow_expired=True
        Stale(stale_info) ==
            IF stale_info.ret.kind = "tuple"
            THEN GotInfo(stale_info.ret.data, stale_info.store,
                      [session EXCEPT !.using_cached_data = TRUE], 0)
            ELSE Raised(IF stale_info.ret.kind = "raise" THEN key_error ELSE no_cache,
                        stale_info.store, session, 0)
        \* load_cache with allow_expired=False
        Cached(cached_info) ==
            IF cached_info.ret.kind = "tuple"
            THEN GotInfo(cached_info.ret.data, cached_info.store, session, 0)
            ELSE IF cached_info.ret.kind = "raise"
            THEN Raised(key_error, cached_info.store, session, 0)
            ELSE IF ~ session.rate_limited
            THEN Called(cached_info.store)
            ELSE Stale(load_cache_in(cached_info.store, ticker, stock_info, TRUE))
    IN  IF force_refresh
        THEN Called(store)
        ELSE Cached(load_cache_in(store, ticker, stock_info, FALSE))

ForwardOutcome(ticker, force_refresh, upstream) ==
    LET \* the rest of the try block: the dict is built, saved and returned
        Built(got) ==
            Outcome(Tuple(ForwardEpsOf(got.info), None),
                    save_cache_in(got.store, ticker, forward_eps,
                                  ForwardEpsOf(got.info)),
                    got.session, got.api_calls)
        \* the end of the except block: the dict of None is saved and returned
        Empty(files, s, api_calls) ==
            Outcome(Tuple(EmptyForwardEps, None),
                    save_cache_in(files, ticker, forward_eps, EmptyForwardEps),
                    s, api_calls)
        \* the except block on a rate-limit error, after its load_cache
        Limited(got, stale) ==
            IF stale.ret.kind \in {"tuple", "raise"}
            THEN Outcome(stale.ret, stale.store, RateLimitSeen(got.session),
                         got.api_calls)
            ELSE Empty(stale.store, RateLimitSeen(got.session), got.api_calls)
        Handled(got) ==
            IF got.kind = "info" THEN Built(got)
            ELSE IF IsRateLimitError(got.message)
            THEN Limited(got, load_cache_in(got.store, ticker, forward_eps, TRUE))
            ELSE Empty(got.store, got.session, got.api_calls)
        Tried(strict) ==
            IF strict.ret.kind \in {"tuple", "raise"}
            THEN Outcome(strict.ret, strict.store, session, 0)
            ELSE Handled(InfoOutcome(strict.store, ticker, force_refresh, upstream))
    IN  Tried(IF force_refresh
              THEN [ret |-> None, store |-> [pkl |-> pkl, meta |-> meta]]
              ELSE load_cache_in([pkl |-> pkl, meta |-> meta], ticker,
                                 forward_eps, FALSE))

\* a fetch as a step of the program
Fetched(op, ticker, data_type, force_refresh, upstream, out) ==
    /\ pkl' = out.store.pkl
    /\ meta' = out.store.meta
    /\ session' = out.session
    /\ last' = [op |-> op, ticker |-> ticker, data_type |-> data_type,
                kwargs |-> <<>>, force_refresh |-> force_refresh,
                upstream |-> IF out.api_calls = 0 THEN [kind |-> "not_called"]
                             ELSE upstream,
                api_calls |-> out.api_calls, ret |-> out.ret]
    /\ UNCHANGED <<running, now, hostOffset>>

\* a get_stock_data that goes to the upstream without reading the cache
get_stock_data_uncached(ticker, force_refresh, upstream) ==
    Fetched("get_stock_data", ticker, stock_data, force_refresh, upstream,
            FetchOutcome(ticker, stock_data, TRUE, upstream))

get_stock_data(ticker, force_refresh, upstream) ==
    Fetched("get_stock_data", ticker, stock_data, force_refresh, upstream,
            FetchOutcome(ticker, stock_data, force_refresh, upstream))

\* eps_ttm = info.get('trailingEps', None)
get_eps_ttm(ticker, force_refresh, upstream) ==
    LET trailing == IF upstream.kind = "ok"
                    THEN [kind |-> "ok",
                          value |-> DictGet(upstream.value, "trailingEps", None)]
                    ELSE upstream
    IN  Fetched("get_eps_ttm", ticker, eps_ttm, force_refresh, upstream,
                FetchOutcome(ticker, eps_ttm, force_refresh, trailing))

get_forward_eps_estimates(ticker, force_refresh, upstream) ==
    Fetched("get_forward_eps_estimates", ticker, forward_eps, force_refresh,
            upstream, ForwardOutcome(ticker, force_refresh, upstream))

----------------------------------------------------------------------------
(* The fetch functions at work for one ticker, against an upstream that    *)
(* answers, refuses with a rate-limit error, or fails otherwise.           *)

\* the model lets a session make the calls that keep its counter up to here
MaxApiCalls == 50

\* the keys of the four data types the fetch functions cache for the ticker
FetchKeys ==
    { _get_cache_key(TickerA, data_type, <<>>) :
        data_type \in { stock_data, eps_ttm, forward_eps, stock_info } }

UpstreamErrors ==
    { <<"r","a","t","e"," ","l","i","m","i","t">>,
      <<"T","o","o"," ","M","a","n","y"," ","R","e","q","u","e","s","t","s">>,
      <<"H","T","T","P"," ","4","2","9">>,
      <<"t","i","m","e","d"," ","o","u","t">> }

\* what stock.info can do: return an info dict or raise
InfoAnswers ==
    { [kind |-> "ok", value |-> [trailingEps |-> [float |-> 2],
                                 forwardEps |-> [float |-> 3]]] }
    \cup { [kind |-> "raise", message |-> m] : m \in UpstreamErrors }

\* the session is two calls short of the limit (it has fetched other
\* tickers today), and the cache directory holds last week's stock_data and
\* forward_eps of the ticker and no eps_ttm and no stock_info. Last week's
\* session wrote on Friday 14:00 of week 0: by now a one-week entry is an
\* hour past its week
InitFetch ==
    /\ now = EtInstant(1, 4, 15)
    /\ hostOffset \in HostUtcOffsets
    /\ LET written == EtInstant(0, 4, 14) + hostOffset
           OldEntry(data_type, data) ==
               [pkl |-> PickleDump(data),
                meta |-> JsonDump([ticker |-> TickerA,
                                   data_type |-> data_type,
                                   created_at |-> Isoformat(written),
                                   last_accessed |-> Isoformat(written),
                                   kwargs |-> <<>>])]
           old_frame == OldEntry(stock_data, [frame |-> 1])
           old_forward == OldEntry(forward_eps,
                                   [fy_current |-> 0, current |-> [float |-> 1],
                                    fy_next |-> 1, next |-> None])
           empty == [k \in FetchKeys |-> NoFile]
       IN  /\ pkl = [empty EXCEPT
                       ![_get_cache_key(TickerA, stock_data, <<>>)] = old_frame.pkl,
                       ![_get_cache_key(TickerA, forward_eps, <<>>)] = old_forward.pkl]
           /\ meta = [empty EXCEPT
                        ![_get_cache_key(TickerA, stock_data, <<>>)] = old_frame.meta,
                        ![_get_cache_key(TickerA, forward_eps, <<>>)] = old_forward.meta]
    /\ last = NoCall
    /\ running = NoOverlap
    /\ session = [SessionStart EXCEPT !.api_call_count = ApiCallLimit - 2]

\* time passes between two fetches: from Friday 15:00 to Friday 17:00 of
\* week 1 (exchange-local time), the same day on every host
TickFetch ==
    /\ \E t \in { EtInstant(1, 4, 15), EtInstant(1, 4, 17) } : t > now /\ now' = t
    /\ UNCHANGED <<session, running, hostOffset, pkl, meta, last>>

\* stock.history returns a price history or raises
GetStockData == \E force_refresh \in BOOLEAN :
                \E upstream \in { [kind |-> "ok", value |-> [frame |-> 2]] }
                                 \cup { [kind |-> "raise", message |-> m] :
                                          m \in UpstreamErrors } :
    /\ get_stock_data(TickerA, force_refresh, upstream)
    /\ session'.api_call_count <= MaxApiCalls

GetEpsTtm == \E force_refresh \in BOOLEAN : \E upstream \in InfoAnswers :
    /\ get_eps_ttm(TickerA, force_refresh, upstream)
    /\ session'.api_call_count <= MaxApiCalls

GetForwardEps == \E force_refresh \in BOOLEAN : \E upstream \in InfoAnswers :
    /\ get_forward_eps_estimates(TickerA, force_refresh, upstream)
    /\ session'.api_call_count <= MaxApiCalls

\* the sidebar button that resets the limit
ResetRateLimit ==
    /\ session.rate_limited
    /\ session' = [session EXCEPT !.rate_limited = FALSE]
    /\ last' = [op |-> "reset_rate_limit"]
    /\ UNCHANGED <<running, now, hostOffset, pkl, meta>>

\* the fetch button clears using_cached_data before it fetches
ResetUsingCached ==
    /\ session.using_cached_data
    /\ session' = [session EXCEPT !.using_cached_data = FALSE]
    /\ last' = [op |-> "reset_using_cached_data"]
    /\ UNCHANGED <<running, now, hostOffset, pkl, meta>>

NextFetch ==
    \/ TickFetch \/ GetStockData \/ GetEpsTtm \/ GetForwardEps
    \/ ResetRateLimit \/ ResetUsingCached

SpecFetch == InitFetch /\ [][NextFetch]_vars

----------------------------------------------------------------------------
(* Properties of the fetch functions.                                      *)

FetchOps == {"get_stock_data", "get_eps_ttm", "get_forward_eps_estimates"}

\* the step is a call of a fetch function
FetchStep == now' = now /\ last'.op \in FetchOps

\* C33: while rate_limited is set in the session, a call of get_stock_data,
\* get_eps_ttm or get_forward_eps_estimates, with force_refresh true or
\* false, makes no upstream call and leaves the API call counter as it was.
C33_NoUpstreamWhileLimited ==
    [][(FetchStep /\ session.rate_limited) =>
        /\ last'.api_calls = 0
        /\ session'.api_call_count = session.api_call_count]_vars

\* the key holds a complete entry that is not expired now
FreshEntry(k, data_type) ==
    EntryComplete(k) /\ ~ _is_cache_expired(data_type, CreatedAt(k))

\* C34: when force_refresh is false and the cache holds an entry of the
\* ticker and the data type that is not expired, get_stock_data, get_eps_ttm
\* and get_forward_eps_estimates return the cached value with its metadata,
\* make no upstream call, leave the API call counter and the session as they
\* were and write no blob file.
C34_CacheFirst ==
    [][(/\ FetchStep
        /\ ~ last'.force_refresh
        /\ FreshEntry(CallKey(last'), last'.data_type)) =>
        LET k == CallKey(last')
        IN  /\ last'.ret.kind = "tuple"
            /\ last'.ret.data = PickleLoad(pkl[k])
            /\ last'.ret.metadata = JsonLoad(meta'[k])
            /\ WithoutReadFields(last'.ret.metadata) = WithoutReadFields(JsonLoad(meta[k]))
            /\ last'.api_calls = 0
            /\ session' = session
            /\ pkl' = pkl]_vars

\* each fetch function has returned a cached entry that is not expired,
\* written by an earlier call, without an upstream call
C34_Witness ==
    /\ last.op \in FetchOps
    /\ ~ last.force_refresh
    /\ last.api_calls = 0
    /\ last.ret.kind = "tuple"
    /\ last.ret.metadata # None
    /\ last.ret.metadata.is_expired = FALSE
    /\ last.ret.data = PickleLoad(pkl[CallKey(last)])

\* the message names a rate limit in the words the handlers look for
NamesRateLimit(message) ==
    \/ Contains(message, <<"r","a","t","e"," ","l","i","m","i","t">>)
    \/ Contains(message, <<"t","o","o"," ","m","a","n","y"," ",
                           "r","e","q","u","e","s","t","s">>)
    \/ Contains(message, <<"4","2","9">>)

\* the step is a fetch whose upstream call raised a rate-limit error
RateLimitedStep ==
    /\ FetchStep
    /\ last'.upstream.kind = "raise"
    /\ NamesRateLimit(last'.upstream.message)

\* C35: when the upstream call of a fetch raises a rate-limit error, the
\* fetch sets rate_limited and using_cached_data; it returns the cached entry
\* of the ticker and data type when there is one, expired or not; it returns
\* (None, None) only when there is none; and every entry the cache held
\* keeps its blob and its metadata but for the fields a read sets.
C35_RateLimitFallback ==
    [][RateLimitedStep =>
        LET k == CallKey(last')
        IN  /\ session'.rate_limited
            /\ session'.using_cached_data
            /\ EntryComplete(k) =>
                 /\ last'.ret.kind = "tuple"
                 /\ last'.ret.data = PickleLoad(pkl[k])
                 /\ last'.ret.metadata = JsonLoad(meta'[k])
            /\ last'.ret = Tuple(None, None) => NoEntry(k)
            /\ \A e \in FetchKeys :
                 EntryComplete(e) =>
                   /\ pkl'[e] = pkl[e]
                   /\ meta'[e].file = "json"
                   /\ WithoutReadFields(JsonLoad(meta'[e]))
                        = WithoutReadFields(JsonLoad(meta[e]))]_vars

\* a rate-limit error has made the fetch return an expired entry
C35_Witness ==
    /\ last.op \in FetchOps
    /\ last.upstream.kind = "raise"
    /\ NamesRateLimit(last.upstream.message)
    /\ last.ret.kind = "tuple"
    /\ last.ret.metadata # None
    /\ last.ret.metadata.is_expired
    /\ session.rate_limited
    /\ session.using_cached_data

\* a rate-limit error has found no entry: the fetch has returned (None, None)
C35_WitnessNoEntry ==
    /\ last.op \in FetchOps
    /\ last.upstream.kind = "raise"
    /\ NamesRateLimit(last.upstream.message)
    /\ last.ret = Tuple(None, None)

====
